---- MODULE Spec2Model ----
(***************************************************************************)
(* Model of the SEO agent worker (src/src/worker.ts):                      *)
(*   - the HTML feature extractor and the rule-based scoring engine        *)
(*     (pure functions, exercised by ScoreSpec);                           *)
(*   - the request handlers POST /api/analyze and POST /api/chat with the  *)
(*     KV cache, the seo_analyses table and the user_sessions table        *)
(*     (exercised by AnalyzeSpec, ChatSpec and Spec, one step per awaited  *)
(*     collaborator call);                                                 *)
(*   - POST /api/analyze of src/src/worker-simple.ts (SimpleSpec).         *)
(* Strings of the program are TLA+ strings; emoji prefixes of the issue    *)
(* and recommendation texts are written as ASCII markers.                  *)
(***************************************************************************)
EXTENDS Integers, Sequences, FiniteSets, TLC

VARIABLES
    html,        \* ScoreSpec: the markup handed to the extractor
    stage,       \* ScoreSpec: "markup", then "extracted", then "scored"
    pageData,    \* ScoreSpec: the extracted features (Null before extraction)
    analysis,    \* ScoreSpec: score, issues, recommendations (Null before scoring)
    cache,       \* KV namespace CACHE: key -> serialized value or NoValue
    analyses,    \* table seo_analyses: sequence of rows in insertion order
    nextId,      \* AUTOINCREMENT counter of seo_analyses
    sessions,    \* table user_sessions: sequence of rows
    reqs,        \* in-flight and finished requests: sequence of records
    capacity,    \* number of requests the run admits
    expiries,    \* ghost: per cache key, number of expiries or evictions so far
    puts,        \* ghost: per cache key, number of cache puts so far
    lastWrite    \* ghost: per session id, request whose session write landed last

vars == <<html, stage, pageData, analysis, cache, analyses, nextId, sessions, reqs, capacity,
          expiries, puts, lastWrite>>

scoreVars == <<html, stage, pageData, analysis>>
reqVars == <<cache, analyses, nextId, sessions, reqs, capacity, expiries, puts, lastWrite>>

NoValue == "<undefined>"
Null == [null |-> TRUE]

-----------------------------------------------------------------------------
(* Bounds of the model *)

MaxTitleLen == 62
MaxDescLen == 162
MaxHeadings == 4
MaxImages == 22
MaxLinks == 4
MaxReqs == 2
MaxAnalyze == 3
MaxChats == 2
MaxInFlight == 2
MaxFailures == 1
MaxExpiries == 1

-----------------------------------------------------------------------------
(* Strings and markup *)

RECURSIVE Rep(_)
Rep(n) ==
    IF n = 0 THEN ""
    ELSE LET half == Rep(n \div 2)
         IN IF n % 2 = 0 THEN half \o half ELSE half \o half \o "a"

Lower(s) ==
    CASE s = "TITLE" -> "title"
      [] s = "Title" -> "title"
      [] s = "META" -> "meta"
      [] s = "NAME" -> "name"
      [] s = "Description" -> "description"
      [] s = "CONTENT" -> "content"
      [] OTHER -> s

TitleSentinel == "No title found"
DescSentinel == "No meta description"

\* An element of the markup: a tag with its attributes in document order
\* and, for elements with a closing tag, the text between the tags.
TitleEl(t) == [tag |-> "title", attrs |-> <<>>, text |-> t]
MetaEl(as) == [tag |-> "meta", attrs |-> as, text |-> ""]
HeadEl(t) == [tag |-> "h2", attrs |-> <<>>, text |-> t]
ImgEl(src) == [tag |-> "img", attrs |-> <<[k |-> "src", v |-> src]>>, text |-> ""]
LinkEl(href) == [tag |-> "a", attrs |-> <<[k |-> "href", v |-> href]>>, text |-> ""]
DescAttrs(d) == <<[k |-> "name", v |-> "description"], [k |-> "content", v |-> d]>>

Absent == "<absent>"

\* a document: optional title, optional description, then headings, images, links
MkHtml(t, d, nh, ni, nl) ==
    (IF t = Absent THEN <<>> ELSE <<TitleEl(t)>>)
    \o (IF d = Absent THEN <<>> ELSE <<MetaEl(DescAttrs(d))>>)
    \o [i \in 1..nh |-> HeadEl("h")]
    \o [i \in 1..ni |-> ImgEl("i.png")]
    \o [i \in 1..nl |-> LinkEl("/p")]

\* index of the first TRUE of a sequence of flags, 0 when there is none
\* (match === null)
FirstMatch(hits) ==
    IF \E i \in 1..Len(hits) : hits[i]
    THEN CHOOSE i \in 1..Len(hits) : hits[i] /\ \A j \in 1..(i - 1) : ~hits[j]
    ELSE 0

RECURSIVE HasNewline(_)
HasNewline(s) ==
    IF Len(s) = 0 THEN FALSE
    ELSE SubSeq(s, 1, 1) = "\n" \/ HasNewline(SubSeq(s, 2, Len(s)))

\* /<title>(.*?)<\/title>/i : a title element without attributes whose text
\* stays on one line; the first such element wins.
IsTitleMatch(e) ==
    /\ Lower(e.tag) = "title"
    /\ e.attrs = <<>>
    /\ ~HasNewline(e.text)

extractTitle(h) ==
    LET m == FirstMatch([i \in 1..Len(h) |-> IsTitleMatch(h[i])])
    IN IF m # 0 THEN h[m].text ELSE TitleSentinel

\* /<meta\s+name=["']description["']\s+content=["'](.*?)["']/i : name is the
\* first attribute, content the one right after it.
IsMetaMatch(e) ==
    /\ Lower(e.tag) = "meta"
    /\ Len(e.attrs) >= 2
    /\ Lower(e.attrs[1].k) = "name"
    /\ Lower(e.attrs[1].v) = "description"
    /\ Lower(e.attrs[2].k) = "content"

extractMetaDescription(h) ==
    LET m == FirstMatch([i \in 1..Len(h) |-> IsMetaMatch(h[i])])
    IN IF m # 0 THEN h[m].attrs[2].v ELSE DescSentinel

IsHeading(e) == e.tag \in {"h1", "h2", "h3", "h4", "h5", "h6"}

HeadingText(e) == e.text

extractHeadings(h) ==
    LET IsH(e) == IsHeading(e)
        hs == SelectSeq(h, IsH)
    IN [i \in 1..Len(hs) |-> HeadingText(hs[i])]

\* an attribute with a non-empty value, found anywhere in the tag
HasAttr(e, name) == \E i \in 1..Len(e.attrs) : e.attrs[i].k = name /\ e.attrs[i].v # ""
AttrOf(e, name) == e.attrs[CHOOSE i \in 1..Len(e.attrs) : e.attrs[i].k = name /\ e.attrs[i].v # ""].v

extractImages(h) ==
    LET IsImg(e) == e.tag = "img" /\ HasAttr(e, "src")
        ms == SelectSeq(h, IsImg)
    IN [i \in 1..Len(ms) |-> AttrOf(ms[i], "src")]

extractLinks(h) ==
    LET IsLink(e) == e.tag = "a" /\ HasAttr(e, "href")
        ms == SelectSeq(h, IsLink)
    IN [i \in 1..Len(ms) |-> AttrOf(ms[i], "href")]

\* worker.ts 26-33
PageDataOf(h) ==
    [html |-> h,
     title |-> extractTitle(h),
     metaDescription |-> extractMetaDescription(h),
     headings |-> extractHeadings(h),
     images |-> extractImages(h),
     links |-> extractLinks(h)]

-----------------------------------------------------------------------------
(* Scoring engine, worker.ts 244-387 *)

\* JavaScript truthiness of a string: only the empty string is falsy
Falsy(s) == s = ""

Max(a, b) == IF a >= b THEN a ELSE b
Min(a, b) == IF a <= b THEN a ELSE b

\* the emptiness test is missing: an empty title counts as too short
TitlePenalty_NoEmptyCheck(pd) ==
    IF pd.title = TitleSentinel THEN 20
    ELSE IF Len(pd.title) < 30 THEN 10
    ELSE IF Len(pd.title) > 60 THEN 10
    ELSE 0

\* three separate ifs instead of an else-if chain
TitlePenalty_SeparateIfs(pd) ==
    (IF Falsy(pd.title) \/ pd.title = TitleSentinel THEN 20 ELSE 0)
    + (IF Len(pd.title) < 30 THEN 10 ELSE 0)
    + (IF Len(pd.title) > 60 THEN 10 ELSE 0)

\* worker.ts 247-254
TitlePenalty(pd) ==
    IF Falsy(pd.title) \/ pd.title = TitleSentinel THEN 20
    ELSE IF Len(pd.title) < 30 THEN 10
    ELSE IF Len(pd.title) > 60 THEN 10
    ELSE 0

\* the upper limit taken as exclusive
DescPenalty_ExclusiveLimit(pd) ==
    IF Falsy(pd.metaDescription) \/ pd.metaDescription = DescSentinel THEN 20
    ELSE IF Len(pd.metaDescription) < 120 THEN 10
    ELSE IF Len(pd.metaDescription) >= 160 THEN 10
    ELSE 0

\* worker.ts 256-263
DescPenalty(pd) ==
    IF Falsy(pd.metaDescription) \/ pd.metaDescription = DescSentinel THEN 20
    ELSE IF Len(pd.metaDescription) < 120 THEN 10
    ELSE IF Len(pd.metaDescription) > 160 THEN 10
    ELSE 0

\* worker.ts 265-270
HeadingsPenalty(pd) ==
    IF Len(pd.headings) = 0 THEN 15
    ELSE IF Len(pd.headings) < 3 THEN 5
    ELSE 0

\* a page without images penalised as well
ImagesPenalty_PenalisesNone(pd) ==
    IF Len(pd.images) = 0 \/ Len(pd.images) > 20 THEN 10 ELSE 0

\* worker.ts 272-275
ImagesPenalty(pd) == IF Len(pd.images) > 20 THEN 10 ELSE 0

\* too few links cost forty points
LinksPenalty_Heavy(pd) == IF Len(pd.links) < 3 THEN 40 ELSE 0

\* worker.ts 277-280
LinksPenalty(pd) == IF Len(pd.links) < 3 THEN 10 ELSE 0

\* penalties added to the score, and no clamp
calculateSeoScore_Adds(pd) ==
    100 + TitlePenalty(pd) + DescPenalty(pd) + HeadingsPenalty(pd)
        + ImagesPenalty(pd) + LinksPenalty(pd)

calculateSeoScore(pd) ==
    LET s0 == 100
        s1 == s0 - TitlePenalty(pd)
        s2 == s1 - DescPenalty(pd)
        s3 == s2 - HeadingsPenalty(pd)
        s4 == s3 - ImagesPenalty(pd)
        s5 == s4 - LinksPenalty(pd)
    IN Max(0, Min(100, s5))

IssueTitleMissing == "[x] Missing title tag - critical for SEO"
IssueTitleShort(n) ==
    "[!] Title tag is too short (" \o ToString(n) \o " characters) - should be 50-60 characters"
IssueTitleLong(n) ==
    "[!] Title tag is too long (" \o ToString(n) \o " characters) - may be truncated in search results"
IssueDescMissing == "[x] Missing meta description - important for click-through rates"
IssueDescShort(n) ==
    "[!] Meta description is too short (" \o ToString(n) \o " characters) - should be 150-160 characters"
IssueDescLong(n) ==
    "[!] Meta description is too long (" \o ToString(n) \o " characters) - will be truncated"
IssueNoHeadings == "[x] No heading tags (H1-H6) found - critical for content structure"
IssueFewHeadings ==
    "[!] Low number of headings - consider adding more subheadings for better structure"
IssueNoImages == "[i] No images found - visual content can improve engagement"
IssueManyImages(n) ==
    "[!] High number of images (" \o ToString(n) \o ") - ensure optimization to prevent slow load times"
IssueFewLinks ==
    "[!] Low number of internal links - improve site structure with more linking"

\* the emptiness test is missing: an empty title is reported as too short
TitleIssues_EmptyIsShort(pd) ==
    IF pd.title = TitleSentinel THEN <<IssueTitleMissing>>
    ELSE IF Len(pd.title) < 30 THEN <<IssueTitleShort(Len(pd.title))>>
    ELSE IF Len(pd.title) > 60 THEN <<IssueTitleLong(Len(pd.title))>>
    ELSE <<>>

\* worker.ts 288-295
TitleIssues(pd) ==
    IF Falsy(pd.title) \/ pd.title = TitleSentinel THEN <<IssueTitleMissing>>
    ELSE IF Len(pd.title) < 30 THEN <<IssueTitleShort(Len(pd.title))>>
    ELSE IF Len(pd.title) > 60 THEN <<IssueTitleLong(Len(pd.title))>>
    ELSE <<>>

\* worker.ts 297-304
DescIssues(pd) ==
    IF Falsy(pd.metaDescription) \/ pd.metaDescription = DescSentinel THEN <<IssueDescMissing>>
    ELSE IF Len(pd.metaDescription) < 120 THEN <<IssueDescShort(Len(pd.metaDescription))>>
    ELSE IF Len(pd.metaDescription) > 160 THEN <<IssueDescLong(Len(pd.metaDescription))>>
    ELSE <<>>

\* worker.ts 306-311
HeadingsIssues(pd) ==
    IF Len(pd.headings) = 0 THEN <<IssueNoHeadings>>
    ELSE IF Len(pd.headings) < 3 THEN <<IssueFewHeadings>>
    ELSE <<>>

\* worker.ts 313-318
ImagesIssues(pd) ==
    IF Len(pd.images) = 0 THEN <<IssueNoImages>>
    ELSE IF Len(pd.images) > 20 THEN <<IssueManyImages(Len(pd.images))>>
    ELSE <<>>

\* worker.ts 320-323
LinksIssues(pd) == IF Len(pd.links) < 3 THEN <<IssueFewLinks>> ELSE <<>>

\* the links are looked at first
findSeoIssues_LinksFirst(pd) ==
    LinksIssues(pd) \o TitleIssues(pd) \o DescIssues(pd) \o HeadingsIssues(pd) \o ImagesIssues(pd)

findSeoIssues(pd) ==
    TitleIssues(pd) \o DescIssues(pd) \o HeadingsIssues(pd) \o ImagesIssues(pd) \o LinksIssues(pd)

RecTitle ==
    [text |-> "Add a descriptive, keyword-rich title tag (50-60 characters)", priority |-> "High"]
RecDesc ==
    [text |-> "Create a compelling meta description (150-160 characters) with a call-to-action",
     priority |-> "High"]
RecHeadings ==
    [text |-> "Implement proper heading structure (H1 for title, H2-H6 for sections)",
     priority |-> "High"]

\* worker.ts 355-384, in push order
UniversalRecs ==
    << [text |-> "Ensure all images have descriptive alt text for accessibility and SEO",
        priority |-> "Medium"],
       [text |-> "Optimize page load speed - compress images, minify CSS/JS, use CDN",
        priority |-> "Medium"],
       [text |-> "Add 3-5 internal links to relevant pages to improve site structure",
        priority |-> "Medium"],
       [text |-> "Verify mobile responsiveness - Google uses mobile-first indexing",
        priority |-> "Medium"],
       [text |-> "Ensure HTTPS is properly configured across the entire site",
        priority |-> "Low"],
       [text |-> "Submit XML sitemap to Google Search Console for better indexing",
        priority |-> "Low"] >>

\* worker.ts 331-337
TitleRecs(pd) ==
    IF Falsy(pd.title) \/ pd.title = TitleSentinel \/ Len(pd.title) < 50
    THEN <<RecTitle>> ELSE <<>>

\* worker.ts 339-345
DescRecs(pd) ==
    IF Falsy(pd.metaDescription) \/ pd.metaDescription = DescSentinel
    THEN <<RecDesc>> ELSE <<>>

\* worker.ts 347-353
HeadingsRecs(pd) == IF Len(pd.headings) = 0 THEN <<RecHeadings>> ELSE <<>>

\* the universal entries pushed before the conditional ones
generateRecommendations_UniversalFirst(pd) ==
    UniversalRecs \o TitleRecs(pd) \o DescRecs(pd) \o HeadingsRecs(pd)

generateRecommendations(pd) ==
    TitleRecs(pd) \o DescRecs(pd) \o HeadingsRecs(pd) \o UniversalRecs

\* worker.ts 53-58, without the retrieved context
ScoreOf(pd) ==
    [score |-> calculateSeoScore(pd),
     issues |-> findSeoIssues(pd),
     recommendations |-> generateRecommendations(pd)]

-----------------------------------------------------------------------------
(* Inputs of the request handlers and the collaborators' possible answers *)

URLs == {"https://a.example", "https://b.example"}
SessionIds == {"s1", "s2"}
Messages == {"What is SEO?", "And titles?"}

\* worker.ts 74, 95
CacheKey(url) == "analysis:" \o url
CacheKeys == {CacheKey(u) : u \in URLs}

\* what the target site may serve: a page, or an error page with a non-2xx
\* status (fetch resolves for any HTTP status)
PageV1 == MkHtml(Rep(5), Absent, 0, 0, 0)
ErrorPage == <<TitleEl("404 Not Found"), HeadEl("Not Found")>>
FetchOutcomes ==
    {[status |-> 200, body |-> PageV1], [status |-> 404, body |-> ErrorPage]}

\* the target site is up and serves the page
OkOutcomes == {o \in FetchOutcomes : o.status = 200}

\* entries of the knowledge base as the index returns them (part_000 3-79,
\* worker.ts 188-195); NoMetadata is a match whose metadata is not returned
KbTitle ==
    [text |-> "Title tags should be 50-60 characters long. Include your primary keyword near the beginning.",
     source |-> "SEO Best Practices"]
KbMeta ==
    [text |-> "Meta descriptions should be 150-160 characters. Include a call-to-action and primary keywords naturally.",
     source |-> "SEO Best Practices"]
KbImages ==
    [text |-> "All images should have descriptive alt text. Compress images to reduce page load time.",
     source |-> "Image Optimization"]
NoMetadata == [text |-> "", source |-> ""]

Match(sc, md) == [score |-> sc, metadata |-> md]

\* ranked answers of the vector index, best match first
QueryAnswers ==
    { <<Match(90, KbTitle), Match(80, KbMeta), Match(70, KbImages)>>,
      <<Match(85, KbImages), Match(60, NoMetadata)>> }

\* the knowledge inserted by /api/populate-vectorize, worker.ts 187-196
Knowledge ==
    << KbTitle,
       KbMeta,
       [text |-> "Use H1 tags for main page titles (only one per page). H2-H6 for subheadings in hierarchical order.",
        source |-> "SEO Best Practices"],
       [text |-> "Content should be at least 300 words for standard pages, 1000+ for cornerstone content.",
        source |-> "Content Guidelines"],
       KbImages,
       [text |-> "Internal links help distribute page authority. Use descriptive anchor text.",
        source |-> "Link Building"],
       [text |-> "Page load time is a ranking factor. Aim for under 3 seconds.",
        source |-> "Performance Optimization"],
       [text |-> "Mobile-first indexing means Google primarily uses mobile version for ranking.",
        source |-> "Mobile SEO"] >>

\* the ranking of an index that was populated twice (every insert gets a new
\* id): sixteen vectors, each entry twice with the same similarity
TwiceRanked ==
    [n \in 1..(2 * Len(Knowledge)) |->
        Match(96 - 4 * ((n + 1) \div 2), Knowledge[(n + 1) \div 2])]

\* rankings of the index, best match first: more matches than any topK, or few
IndexRankings == {TwiceRanked, <<Match(85, KbImages), Match(60, NoMetadata)>>}

\* VECTORIZE.query(vector, {topK}) returns at most topK matches
Truncate(seq, n) == SubSeq(seq, 1, Min(Len(seq), n))
TopKAnalyze == 10
TopKChat == 5

RECURSIVE Join(_, _)
Join(seq, sep) ==
    IF Len(seq) = 0 THEN ""
    ELSE IF Len(seq) = 1 THEN seq[1]
    ELSE seq[1] \o sep \o Join(SubSeq(seq, 2, Len(seq)), sep)

Truthy(s) == s # ""

\* worker.ts 47-50, 136-139
RagContextOf(matches) ==
    LET texts == [i \in 1..Len(matches) |-> matches[i].metadata.text]
    IN Join(SelectSeq(texts, Truthy), "\n\n")

Substring(s, from, to) == SubSeq(s, from + 1, Min(Len(s), to))

\* worker.ts 168
SourcesOf(matches) ==
    LET labels == [i \in 1..Len(matches) |->
                     IF matches[i].metadata.source # "" THEN matches[i].metadata.source
                     ELSE "Unknown"]
    IN SelectSeq(labels, Truthy)

\* a page is marked down when little was retrieved for it
AnalysisOf_ScoresRetrieval(pd, matches) ==
    [score |-> Max(0, calculateSeoScore(pd) - (IF Len(matches) < 3 THEN 5 ELSE 0)),
     issues |-> findSeoIssues(pd),
     recommendations |-> generateRecommendations(pd),
     ragContext |-> Substring(RagContextOf(matches), 0, 500)]

\* worker.ts 53-58
AnalysisOf(pd, matches) ==
    [score |-> calculateSeoScore(pd),
     issues |-> findSeoIssues(pd),
     recommendations |-> generateRecommendations(pd),
     ragContext |-> Substring(RagContextOf(matches), 0, 500)]

-----------------------------------------------------------------------------
(* JSON: a text is modelled by its tree of nodes, objects keeping the order *)
(* in which their keys were inserted                                       *)

JStr(s) == [t |-> "string", v |-> s]
JNum(n) == [t |-> "number", v |-> n]
JArr(nodes) == [t |-> "array", v |-> nodes]
JObj(ks, vs) == [t |-> "object", keys |-> ks, v |-> vs]

JStrings(seq) == JArr([i \in 1..Len(seq) |-> JStr(seq[i])])
UnJStrings(node) == [i \in 1..Len(node.v) |-> node.v[i].v]

JRec(r) == JObj(<<"text", "priority">>, [text |-> JStr(r.text), priority |-> JStr(r.priority)])
UnJRec(node) == [text |-> node.v.text.v, priority |-> node.v.priority.v]

JRecs(seq) == JArr([i \in 1..Len(seq) |-> JRec(seq[i])])
UnJRecs(node) == [i \in 1..Len(node.v) |-> UnJRec(node.v[i])]

JPageData(pd) ==
    JObj(<<"html", "title", "metaDescription", "headings", "images", "links">>,
         [html |-> JStr(pd.html), title |-> JStr(pd.title),
          metaDescription |-> JStr(pd.metaDescription),
          headings |-> JStrings(pd.headings), images |-> JStrings(pd.images),
          links |-> JStrings(pd.links)])
UnJPageData(node) ==
    [html |-> node.v.html.v, title |-> node.v.title.v,
     metaDescription |-> node.v.metaDescription.v,
     headings |-> UnJStrings(node.v.headings), images |-> UnJStrings(node.v.images),
     links |-> UnJStrings(node.v.links)]

JAnalysis(a) ==
    JObj(<<"score", "issues", "recommendations", "ragContext">>,
         [score |-> JNum(a.score), issues |-> JStrings(a.issues),
          recommendations |-> JRecs(a.recommendations), ragContext |-> JStr(a.ragContext)])
UnJAnalysis(node) ==
    [score |-> node.v.score.v, issues |-> UnJStrings(node.v.issues),
     recommendations |-> UnJRecs(node.v.recommendations), ragContext |-> node.v.ragContext.v]

\* JSON.stringify({ pageData, analysis }), worker.ts 75
StringifyResult(result) ==
    JObj(<<"pageData", "analysis">>,
         [pageData |-> JPageData(result.pageData), analysis |-> JAnalysis(result.analysis)])

\* a parse that loses the issues list
ParseResult_DropsIssues(node) ==
    [pageData |-> UnJPageData(node.v.pageData),
     analysis |-> [UnJAnalysis(node.v.analysis) EXCEPT !.issues = <<>>]]

\* JSON.parse(cached), worker.ts 99
ParseResult(node) ==
    [pageData |-> UnJPageData(node.v.pageData), analysis |-> UnJAnalysis(node.v.analysis)]

\* JSON.stringify({ lastMessage: message }), worker.ts 164: a property whose
\* value is undefined is left out
StringifyLastMessage(message) ==
    IF message = NoValue THEN "{}"
    ELSE "{\"lastMessage\":\"" \o message \o "\"}"

-----------------------------------------------------------------------------
(* ScoreSpec: the extractor and the scoring engine applied to markup *)

TitleLens == {0, 1, 5, 14, 29, 30, 31, 40, 49, 50, 51, 59, 60, 61, MaxTitleLen}
TitleTexts == {Rep(n) : n \in TitleLens} \cup {TitleSentinel, "two\nlines"}

DescLens == {0, 1, 119, 120, 121, 159, 160, 161, MaxDescLen}
DescTexts == {Rep(n) : n \in DescLens} \cup {DescSentinel}

ImageCounts == {0, 1, 20, 21, MaxImages}

\* ways of writing the description element: the attributes in either order,
\* in upper case, with another attribute before, between or after them
Attr(k, v) == [k |-> k, v |-> v]
MetaWritings ==
    { DescAttrs(Rep(150)),
      <<Attr("content", Rep(150)), Attr("name", "description")>>,
      <<Attr("NAME", "Description"), Attr("CONTENT", Rep(150))>>,
      <<Attr("id", "d"), Attr("name", "description"), Attr("content", Rep(150))>>,
      <<Attr("name", "description"), Attr("lang", "en"), Attr("content", Rep(150))>>,
      <<Attr("name", "description"), Attr("content", Rep(150)), Attr("lang", "en")>>,
      <<Attr("name", "keywords"), Attr("content", "seo")>> }

\* a page with one or two meta elements ahead of three headings and links
MetaDocuments ==
    { <<TitleEl(Rep(55))>> \o metas \o MkHtml(Absent, Absent, 3, 1, 3) :
        metas \in { <<MetaEl(a)>> : a \in MetaWritings }
                  \cup { <<MetaEl(a), MetaEl(DescAttrs(Rep(120)))>> : a \in MetaWritings } }

Documents ==
    {MkHtml(t, d, nh, ni, nl) :
        t \in TitleTexts \cup {Absent}, d \in DescTexts \cup {Absent},
        nh \in 0..MaxHeadings, ni \in ImageCounts, nl \in 0..MaxLinks}
    \cup MetaDocuments

InitReq ==
    /\ cache = [k \in CacheKeys |-> Null]
    /\ analyses = <<>>
    /\ nextId = 1
    /\ sessions = <<>>
    /\ reqs = <<>>
    /\ expiries = [k \in CacheKeys |-> 0]
    /\ puts = [k \in CacheKeys |-> 0]
    /\ lastWrite = [sid \in SessionIds |-> 0]

InitScore ==
    /\ html \in Documents
    /\ stage = "markup"
    /\ pageData = Null
    /\ analysis = Null
    /\ InitReq
    /\ capacity = MaxReqs

\* worker.ts 26-33: the five extractors run on the fetched markup
Extract ==
    /\ stage = "markup"
    /\ stage' = "extracted"
    /\ pageData' = PageDataOf(html)
    /\ UNCHANGED <<html, analysis>>
    /\ UNCHANGED reqVars

\* worker.ts 53-56: score, issues and recommendations of the features
Score ==
    /\ stage = "extracted"
    /\ stage' = "scored"
    /\ analysis' = ScoreOf(pageData)
    /\ UNCHANGED <<html, pageData>>
    /\ UNCHANGED reqVars

NextScore == Extract \/ Score

ScoreSpec == InitScore /\ [][NextScore]_vars

-----------------------------------------------------------------------------
(* Spec: the request handlers, one action per awaited collaborator call.   *)
(* A request's pc names the call it is waiting for; its calls field lists  *)
(* the collaborator calls it has issued, in order.                         *)

AnalyzeInputs == URLs \cup {NoValue}
\* requests that all name the same URL, or none
SameUrlInputs == {"https://a.example", NoValue}
ChatInputs ==
    {<<"What is SEO?", "s1">>, <<"And titles?", "s1">>, <<"What is SEO?", "s2">>,
     <<NoValue, "s1">>, <<"What is SEO?", NoValue>>}

\* a well-formed chat and one with an empty body
MixedChatInputs == {<<"What is SEO?", "s1">>, <<NoValue, NoValue>>}

DoneIds == {i \in 1..Len(reqs) : reqs[i].pc = "done"}
InFlightIds == {i \in 1..Len(reqs) : reqs[i].pc # "done"}
FailedIds == {i \in 1..Len(reqs) : reqs[i].status = 500}

\* a request is admitted while the run has room for it
Admits == Len(reqs) < capacity /\ Cardinality(InFlightIds) < MaxInFlight

NewReq(kind, url, message, sessionId) ==
    [kind |-> kind, url |-> url, message |-> message, sessionId |-> sessionId,
     pc |-> "parse", calls |-> <<>>,
     cached |-> Null, fetchStatus |-> 0, pageData |-> Null, matches |-> <<>>,
     analysis |-> Null, history |-> NoValue, prompt |-> Null,
     status |-> 0, body |-> Null,
     doneAtStart |-> DoneIds, epoch |-> 0, putsSeen |-> 0]

\* the handler returns: its local variables are gone, the response stays
Respond(r, status, body) ==
    [r EXCEPT !.pc = "done", !.status = status, !.body = body,
              !.cached = Null, !.fetchStatus = 0, !.pageData = Null, !.matches = <<>>,
              !.analysis = Null, !.history = NoValue, !.prompt = Null]

Called(r, name) == [r EXCEPT !.calls = Append(@, name)]

\* the url check is missing: every request goes on to the cache read
ArriveAnalyze_NoCheck(u) ==
    /\ Admits
    /\ reqs' = Append(reqs, [NewReq("analyze", u, NoValue, NoValue) EXCEPT !.pc = "cache.get"])
    /\ UNCHANGED <<cache, analyses, nextId, sessions, capacity, expiries, puts, lastWrite>>
    /\ UNCHANGED scoreVars

\* worker.ts 86-91: the body is parsed and the url checked
ArriveAnalyze(u) ==
    /\ Admits
    /\ LET r == NewReq("analyze", u, NoValue, NoValue)
       IN reqs' = Append(reqs,
                    IF u = NoValue \/ Falsy(u)
                    THEN Respond(r, 400, [error |-> "URL is required"])
                    ELSE [r EXCEPT !.pc = "cache.get"])
    /\ UNCHANGED <<cache, analyses, nextId, sessions, capacity, expiries, puts, lastWrite>>
    /\ UNCHANGED scoreVars

\* the early return of the hit branch is missing
AfterCacheGet_FallsThrough(r, cached) == [r EXCEPT !.pc = "fetch"]

\* worker.ts 96-102 and the fall through to line 106
AfterCacheGet(r, cached) ==
    IF cached # Null
    THEN Respond(r, 200, [cached |-> TRUE, data |-> ParseResult(cached),
                          message |-> "Retrieved from cache"])
    ELSE [r EXCEPT !.pc = "fetch"]

\* worker.ts 95-102
AnalyzeCacheGet(i) ==
    LET r == reqs[i]
        k == CacheKey(r.url)
        r1 == [Called(r, "cache.get") EXCEPT
                 !.cached = cache[k], !.epoch = expiries[k], !.putsSeen = puts[k]]
    IN /\ r.kind = "analyze" /\ r.pc = "cache.get"
       /\ reqs' = [reqs EXCEPT ![i] = AfterCacheGet(r1, cache[k])]
       /\ UNCHANGED <<cache, analyses, nextId, sessions, capacity, expiries, puts, lastWrite>>
       /\ UNCHANGED scoreVars

\* worker.ts 23-33: fetch resolves for any status, the body is read and the
\* features extracted; outcomes are the responses the target site may give
AnalyzeFetch(i, outcomes) ==
    LET r == reqs[i]
    IN /\ r.kind = "analyze" /\ r.pc = "fetch"
       /\ \E o \in outcomes :
            reqs' = [reqs EXCEPT ![i] =
                       [Called(r, "fetch") EXCEPT
                          !.fetchStatus = o.status,
                          !.pageData = PageDataOf(o.body),
                          !.pc = "ai.embed"]]
       /\ UNCHANGED <<cache, analyses, nextId, sessions, capacity, expiries, puts, lastWrite>>
       /\ UNCHANGED scoreVars

\* the features are cached as soon as they are embedded
AnalyzeEmbed_CachesEarly(i) ==
    LET r == reqs[i]
    IN /\ r.kind = "analyze" /\ r.pc = "ai.embed"
       /\ cache' = [cache EXCEPT ![CacheKey(r.url)] = JPageData(r.pageData)]
       /\ reqs' = [reqs EXCEPT ![i] = [Called(r, "ai.embed") EXCEPT !.pc = "vectorize.query"]]
       /\ UNCHANGED <<analyses, nextId, sessions, capacity, expiries, puts, lastWrite>>
       /\ UNCHANGED scoreVars

\* worker.ts 36-40
AnalyzeEmbed(i) ==
    LET r == reqs[i]
    IN /\ r.kind = "analyze" /\ r.pc = "ai.embed"
       /\ reqs' = [reqs EXCEPT ![i] = [Called(r, "ai.embed") EXCEPT !.pc = "vectorize.query"]]
       /\ UNCHANGED <<cache, analyses, nextId, sessions, capacity, expiries, puts, lastWrite>>
       /\ UNCHANGED scoreVars

\* worker.ts 42-58: the index answers with the best topK of one of the given
\* rankings, then the rules score the features
AnalyzeQuery(i, rankings) ==
    LET r == reqs[i]
    IN /\ r.kind = "analyze" /\ r.pc = "vectorize.query"
       /\ \E ans \in rankings :
            LET ms == Truncate(ans, TopKAnalyze)
            IN reqs' = [reqs EXCEPT ![i] =
                          [Called(r, "vectorize.query") EXCEPT
                             !.matches = ms,
                             !.analysis = AnalysisOf(r.pageData, ms),
                             !.pc = "db.insert"]]
       /\ UNCHANGED <<cache, analyses, nextId, sessions, capacity, expiries, puts, lastWrite>>
       /\ UNCHANGED scoreVars

\* the row of a URL analysed before is replaced by the new one
InsertAnalysis_ReplacesUrl(rows, id, url, pd, a) ==
    LET Other(row) == row.url # url
    IN Append(SelectSeq(rows, Other),
              [id |-> id, url |-> url, analysis_data |-> JPageData(pd),
               score |-> a.score, recommendations |-> JRecs(a.recommendations)])

\* worker.ts 61-69, part_001 2-9: a new row with the next id
InsertAnalysis(rows, id, url, pd, a) ==
    Append(rows, [id |-> id, url |-> url, analysis_data |-> JPageData(pd),
                  score |-> a.score, recommendations |-> JRecs(a.recommendations)])

\* the insert is started and not waited for: the row is not there yet when
\* the cache is written
AnalyzeInsert_NotAwaited(i) ==
    LET r == reqs[i]
    IN /\ r.kind = "analyze" /\ r.pc = "db.insert"
       /\ reqs' = [reqs EXCEPT ![i] = [Called(r, "db.insert") EXCEPT !.pc = "cache.put"]]
       /\ UNCHANGED <<cache, analyses, nextId, sessions, capacity, expiries, puts, lastWrite>>
       /\ UNCHANGED scoreVars

AnalyzeInsert(i) ==
    LET r == reqs[i]
    IN /\ r.kind = "analyze" /\ r.pc = "db.insert"
       /\ analyses' = InsertAnalysis(analyses, nextId, r.url, r.pageData, r.analysis)
       /\ nextId' = nextId + 1
       /\ reqs' = [reqs EXCEPT ![i] = [Called(r, "db.insert") EXCEPT !.pc = "cache.put"]]
       /\ UNCHANGED <<cache, sessions, capacity, expiries, puts, lastWrite>>
       /\ UNCHANGED scoreVars

\* an entry that is already there is kept: the first writer wins
AnalyzePut_KeepsFirst(i) ==
    LET r == reqs[i]
        k == CacheKey(r.url)
        result == [pageData |-> r.pageData, analysis |-> r.analysis]
    IN /\ r.kind = "analyze" /\ r.pc = "cache.put"
       /\ cache' = [cache EXCEPT ![k] = IF @ = Null THEN StringifyResult(result) ELSE @]
       /\ puts' = [puts EXCEPT ![k] = @ + 1]
       /\ reqs' = [reqs EXCEPT ![i] =
                     Respond([Called(r, "cache.put") EXCEPT
                                !.epoch = expiries[k], !.putsSeen = puts[k] + 1],
                             200,
                             [cached |-> FALSE, data |-> result,
                              message |-> "Analysis complete"])]
       /\ UNCHANGED <<analyses, nextId, sessions, capacity, expiries, lastWrite>>
       /\ UNCHANGED scoreVars

\* worker.ts 73-79 and 108-112
AnalyzePut(i) ==
    LET r == reqs[i]
        k == CacheKey(r.url)
        result == [pageData |-> r.pageData, analysis |-> r.analysis]
    IN /\ r.kind = "analyze" /\ r.pc = "cache.put"
       /\ cache' = [cache EXCEPT ![k] = StringifyResult(result)]
       /\ puts' = [puts EXCEPT ![k] = @ + 1]
       /\ reqs' = [reqs EXCEPT ![i] =
                     Respond([Called(r, "cache.put") EXCEPT
                                !.epoch = expiries[k], !.putsSeen = puts[k] + 1],
                             200,
                             [cached |-> FALSE, data |-> result,
                              message |-> "Analysis complete"])]
       /\ UNCHANGED <<analyses, nextId, sessions, capacity, expiries, lastWrite>>
       /\ UNCHANGED scoreVars

\* the cache drops an entry: its one hour TTL ran out, or it was evicted
CacheExpire(k) ==
    /\ cache[k] # Null
    /\ expiries[k] < MaxExpiries
    /\ cache' = [cache EXCEPT ![k] = Null]
    /\ expiries' = [expiries EXCEPT ![k] = @ + 1]
    /\ UNCHANGED <<analyses, nextId, sessions, reqs, capacity, puts, lastWrite>>
    /\ UNCHANGED scoreVars

\* worker.ts 122-123: the body is parsed, nothing is checked
ArriveChat(m, sid) ==
    /\ Admits
    /\ reqs' = Append(reqs, [NewReq("chat", NoValue, m, sid) EXCEPT !.pc = "ai.embed"])
    /\ UNCHANGED <<cache, analyses, nextId, sessions, capacity, expiries, puts, lastWrite>>
    /\ UNCHANGED scoreVars

\* worker.ts 126-128
ChatEmbed(i) ==
    LET r == reqs[i]
    IN /\ r.kind = "chat" /\ r.pc = "ai.embed"
       /\ reqs' = [reqs EXCEPT ![i] = [Called(r, "ai.embed") EXCEPT !.pc = "vectorize.query"]]
       /\ UNCHANGED <<cache, analyses, nextId, sessions, capacity, expiries, puts, lastWrite>>
       /\ UNCHANGED scoreVars

\* the chat asks the index for as many matches as the analysis does
ChatQuery_AsksTen(i, rankings) ==
    LET r == reqs[i]
    IN /\ r.kind = "chat" /\ r.pc = "vectorize.query"
       /\ \E ans \in rankings :
            reqs' = [reqs EXCEPT ![i] =
                       [Called(r, "vectorize.query") EXCEPT
                          !.matches = Truncate(ans, TopKAnalyze),
                          !.pc = "db.sessionRead"]]
       /\ UNCHANGED <<cache, analyses, nextId, sessions, capacity, expiries, puts, lastWrite>>
       /\ UNCHANGED scoreVars

\* worker.ts 130-139
ChatQuery(i, rankings) ==
    LET r == reqs[i]
    IN /\ r.kind = "chat" /\ r.pc = "vectorize.query"
       /\ \E ans \in rankings :
            reqs' = [reqs EXCEPT ![i] =
                       [Called(r, "vectorize.query") EXCEPT
                          !.matches = Truncate(ans, TopKChat),
                          !.pc = "db.sessionRead"]]
       /\ UNCHANGED <<cache, analyses, nextId, sessions, capacity, expiries, puts, lastWrite>>
       /\ UNCHANGED scoreVars

\* the read finds no row, whatever the table holds
SelectContext_FindsNothing(rows, sid) == NoValue

\* SELECT context FROM user_sessions WHERE session_id = ? ... first():
\* the context of the first matching row, NoValue when no row matches
\* (a NULL id matches no row)
SelectContext(rows, sid) ==
    LET m == FirstMatch([j \in 1..Len(rows) |-> sid # NoValue /\ rows[j].session_id = sid])
    IN IF m # 0 THEN rows[m].context ELSE NoValue

\* the session is written right after it was read, before the model is asked
ChatSessionRead_ThenWrites(i) ==
    LET r == reqs[i]
    IN /\ r.kind = "chat" /\ r.pc = "db.sessionRead"
       /\ reqs' = [reqs EXCEPT ![i] =
                     [Called(r, "db.sessionRead") EXCEPT
                        !.history = SelectContext(sessions, r.sessionId),
                        !.pc = "db.sessionWrite"]]
       /\ UNCHANGED <<cache, analyses, nextId, sessions, capacity, expiries, puts, lastWrite>>
       /\ UNCHANGED scoreVars

\* worker.ts 142-144
ChatSessionRead(i) ==
    LET r == reqs[i]
    IN /\ r.kind = "chat" /\ r.pc = "db.sessionRead"
       /\ reqs' = [reqs EXCEPT ![i] =
                     [Called(r, "db.sessionRead") EXCEPT
                        !.history = SelectContext(sessions, r.sessionId),
                        !.pc = "ai.generate"]]
       /\ UNCHANGED <<cache, analyses, nextId, sessions, capacity, expiries, puts, lastWrite>>
       /\ UNCHANGED scoreVars

\* worker.ts 148-157: the messages handed to the model
PromptOf(matches, history, message) ==
    [system |->
        "You are an expert SEO consultant. Use this knowledge base to provide accurate advice:\n\n"
        \o RagContextOf(matches) \o "\n\nPrevious context: "
        \o (IF history # NoValue /\ Truthy(history) THEN history ELSE "None"),
     user |-> message]

\* worker.ts 147-159
ChatGenerate(i) ==
    LET r == reqs[i]
    IN /\ r.kind = "chat" /\ r.pc = "ai.generate"
       /\ reqs' = [reqs EXCEPT ![i] =
                     [Called(r, "ai.generate") EXCEPT
                        !.prompt = PromptOf(r.matches, r.history, r.message),
                        !.pc = "db.sessionWrite"]]
       /\ UNCHANGED <<cache, analyses, nextId, sessions, capacity, expiries, puts, lastWrite>>
       /\ UNCHANGED scoreVars

\* a plain INSERT into a table without the key constraint
UpsertSession_InsertOnly(rows, sid, context) ==
    Append(rows, [session_id |-> sid, context |-> context])

\* INSERT OR REPLACE INTO user_sessions, session_id being the primary key
\* (part_001 12-16): a row with the same id is replaced; a NULL id equals no
\* other id, so such a row is only added
UpsertSession(rows, sid, context) ==
    LET Other(row) == sid = NoValue \/ row.session_id # sid
    IN Append(SelectSeq(rows, Other), [session_id |-> sid, context |-> context])

\* worker.ts 162-169
ChatSessionWrite(i) ==
    LET r == reqs[i]
    IN /\ r.kind = "chat" /\ r.pc = "db.sessionWrite"
       /\ sessions' = UpsertSession(sessions, r.sessionId, StringifyLastMessage(r.message))
       /\ lastWrite' = IF r.sessionId \in SessionIds
                       THEN [lastWrite EXCEPT ![r.sessionId] = i]
                       ELSE lastWrite
       /\ reqs' = [reqs EXCEPT ![i] =
                     Respond(Called(r, "db.sessionWrite"), 200,
                             [response |-> "generated answer",
                              sources |-> SourcesOf(r.matches)])]
       /\ UNCHANGED <<cache, analyses, nextId, capacity, expiries, puts>>
       /\ UNCHANGED scoreVars

CollaboratorCalls ==
    {"cache.get", "fetch", "ai.embed", "vectorize.query", "db.insert", "cache.put",
     "db.sessionRead", "ai.generate", "db.sessionWrite"}

\* the rejected call is issued again
Throw_Retries(i) ==
    LET r == reqs[i]
    IN /\ r.pc \in CollaboratorCalls
       /\ Len(r.calls) < 7
       /\ reqs' = [reqs EXCEPT ![i] = Called(r, r.pc)]
       /\ UNCHANGED <<cache, analyses, nextId, sessions, capacity, expiries, puts, lastWrite>>
       /\ UNCHANGED scoreVars

\* worker.ts 113-116, 170-173: the awaited call rejects, the catch block
\* answers 500 with the error's message
Throw(i) ==
    LET r == reqs[i]
    IN /\ r.pc \in CollaboratorCalls
       /\ Cardinality(FailedIds) < MaxFailures
       /\ reqs' = [reqs EXCEPT ![i] =
                     Respond(Called(r, r.pc), 500, [error |-> r.pc \o " failed"])]
       /\ UNCHANGED <<cache, analyses, nextId, sessions, capacity, expiries, puts, lastWrite>>
       /\ UNCHANGED scoreVars

\* SELECT * FROM seo_analyses ORDER BY created_at DESC LIMIT n: the rows
\* inserted last, as a set (rows inserted within one second have no defined order)
LatestRows(rows, n) == {rows[j] : j \in Max(1, Len(rows) - n + 1)..Len(rows)}

\* worker.ts 177: GET /api/history takes no input
ArriveHistory ==
    /\ Admits
    /\ reqs' = Append(reqs, [NewReq("history", NoValue, NoValue, NoValue) EXCEPT !.pc = "db.history"])
    /\ UNCHANGED <<cache, analyses, nextId, sessions, capacity, expiries, puts, lastWrite>>
    /\ UNCHANGED scoreVars

\* worker.ts 178-182: the rows are returned; the handler has no catch block,
\* a rejected query is answered by the framework
HistorySelect(i) ==
    LET r == Called(reqs[i], "db.history")
    IN /\ reqs[i].kind = "history" /\ reqs[i].pc = "db.history"
       /\ \/ reqs' = [reqs EXCEPT ![i] = Respond(r, 200, [results |-> LatestRows(analyses, 10)])]
          \/ /\ Cardinality(FailedIds) < MaxFailures
             /\ reqs' = [reqs EXCEPT ![i] = Respond(r, 500, [error |-> "Internal Server Error"])]
       /\ UNCHANGED <<cache, analyses, nextId, sessions, capacity, expiries, puts, lastWrite>>
       /\ UNCHANGED scoreVars

InitIdle ==
    /\ html = <<>>
    /\ stage = "idle"
    /\ pageData = Null
    /\ analysis = Null
    /\ InitReq

\* requests of both kinds, the site serving the page or an error page, the
\* index holding the knowledge base twice
Init == InitIdle /\ capacity = MaxReqs

Next ==
    \/ \E u \in SameUrlInputs : ArriveAnalyze(u)
    \/ \E in \in MixedChatInputs : ArriveChat(in[1], in[2])
    \/ ArriveHistory
    \/ \E k \in CacheKeys : CacheExpire(k)
    \/ \E i \in 1..Len(reqs) : AnalyzeCacheGet(i)
    \/ \E i \in 1..Len(reqs) : AnalyzeFetch(i, FetchOutcomes)
    \/ \E i \in 1..Len(reqs) : AnalyzeEmbed(i)
    \/ \E i \in 1..Len(reqs) : AnalyzeQuery(i, IndexRankings)
    \/ \E i \in 1..Len(reqs) : AnalyzeInsert(i)
    \/ \E i \in 1..Len(reqs) : AnalyzePut(i)
    \/ \E i \in 1..Len(reqs) : ChatEmbed(i)
    \/ \E i \in 1..Len(reqs) : ChatQuery(i, IndexRankings)
    \/ \E i \in 1..Len(reqs) : ChatSessionRead(i)
    \/ \E i \in 1..Len(reqs) : ChatGenerate(i)
    \/ \E i \in 1..Len(reqs) : ChatSessionWrite(i)
    \/ \E i \in 1..Len(reqs) : HistorySelect(i)
    \/ \E i \in 1..Len(reqs) : Throw(i)

Spec == Init /\ [][Next]_vars

\* analyze requests only, all for one URL whose site serves the page; the
\* results differ by the passages the index returns
InitAnalyze == InitIdle /\ capacity = MaxAnalyze

NextAnalyze ==
    \/ \E u \in SameUrlInputs : ArriveAnalyze(u)
    \/ \E k \in CacheKeys : CacheExpire(k)
    \/ \E i \in 1..Len(reqs) : AnalyzeCacheGet(i)
    \/ \E i \in 1..Len(reqs) : AnalyzeFetch(i, OkOutcomes)
    \/ \E i \in 1..Len(reqs) : AnalyzeEmbed(i)
    \/ \E i \in 1..Len(reqs) : AnalyzeQuery(i, QueryAnswers)
    \/ \E i \in 1..Len(reqs) : AnalyzeInsert(i)
    \/ \E i \in 1..Len(reqs) : AnalyzePut(i)
    \/ \E i \in 1..Len(reqs) : Throw(i)

AnalyzeSpec == InitAnalyze /\ [][NextAnalyze]_vars

\* chat requests only
InitChat == InitIdle /\ capacity = MaxChats

NextChat ==
    \/ \E in \in ChatInputs : ArriveChat(in[1], in[2])
    \/ \E i \in 1..Len(reqs) : ChatEmbed(i)
    \/ \E i \in 1..Len(reqs) : ChatQuery(i, QueryAnswers)
    \/ \E i \in 1..Len(reqs) : ChatSessionRead(i)
    \/ \E i \in 1..Len(reqs) : ChatGenerate(i)
    \/ \E i \in 1..Len(reqs) : ChatSessionWrite(i)
    \/ \E i \in 1..Len(reqs) : Throw(i)

ChatSpec == InitChat /\ [][NextChat]_vars

-----------------------------------------------------------------------------
(* SimpleSpec: POST /api/analyze as worker-simple.ts serves it. The url      *)
(* check, the fetch with the extraction and the embedding call are the same  *)
(* statements as in worker.ts; the cache read, the query, the generative     *)
(* step, the insert and the cache write handle a result of another shape.    *)

\* the analysis of worker-simple.ts: recommendations are plain strings and
\* there is no ragContext
JSimpleAnalysis(a) ==
    JObj(<<"score", "issues", "recommendations">>,
         [score |-> JNum(a.score), issues |-> JStrings(a.issues),
          recommendations |-> JStrings(a.recommendations)])
UnJSimpleAnalysis(node) ==
    [score |-> node.v.score.v, issues |-> UnJStrings(node.v.issues),
     recommendations |-> UnJStrings(node.v.recommendations)]

\* JSON.stringify({ pageData, analysis }), worker-simple.ts 106
StringifySimpleResult(result) ==
    JObj(<<"pageData", "analysis">>,
         [pageData |-> JPageData(result.pageData),
          analysis |-> JSimpleAnalysis(result.analysis)])

\* JSON.parse(cached), worker-simple.ts 128
ParseSimpleResult(node) ==
    [pageData |-> UnJPageData(node.v.pageData),
     analysis |-> UnJSimpleAnalysis(node.v.analysis)]

\* worker-simple.ts 53-76: the messages handed to the model
SimplePromptOf(url, pd, ragContext) ==
    [system |-> "You are an expert SEO auditor. Always respond with valid JSON only.",
     user |-> "Analyze this website for SEO:\n\nURL: " \o url
              \o "\nTitle: " \o pd.title
              \o "\nMeta Description: " \o pd.metaDescription
              \o "\nNumber of Headings: " \o ToString(Len(pd.headings))
              \o "\nNumber of Images: " \o ToString(Len(pd.images))
              \o "\nNumber of Links: " \o ToString(Len(pd.links))
              \o "\n\nSEO Best Practices Reference:\n" \o ragContext
              \o "\n\nProvide a JSON response with:\n1. score (0-100)\n2. issues (array of strings)\n3. recommendations (array of strings with priority: High/Medium/Low)\n\nRespond ONLY with valid JSON, no markdown."]

\* what the model may answer: a JSON text, bare or inside a markdown fence,
\* or prose that is no JSON
Prose(s) == [t |-> "prose", v |-> s]
GeneratedAnalysis ==
    [score |-> 72, issues |-> <<"Title is short">>,
     recommendations |-> <<"High: write a longer title">>]
GeneratedReplies ==
    { [fenced |-> TRUE, content |-> JSimpleAnalysis(GeneratedAnalysis)],
      [fenced |-> FALSE, content |-> Prose("Sure! Here is my analysis of the page.")] }

\* worker-simple.ts 85-89
FallbackAnalysis ==
    [score |-> 50, issues |-> <<"Could not parse AI response">>,
     recommendations |-> <<"Please try again">>]

\* worker-simple.ts 80-90: the fence markers are removed, then the text is
\* parsed as JSON; the fallback is used when the parse throws
ParseReply(reply) ==
    LET responseText == reply.content
    IN IF responseText.t = "object" THEN UnJSimpleAnalysis(responseText)
       ELSE FallbackAnalysis

\* worker-simple.ts 124-131
SimpleCacheGet(i) ==
    LET r == reqs[i]
        k == CacheKey(r.url)
        r1 == [Called(r, "cache.get") EXCEPT
                 !.cached = cache[k], !.epoch = expiries[k], !.putsSeen = puts[k]]
    IN /\ r.kind = "analyze" /\ r.pc = "cache.get"
       /\ reqs' = [reqs EXCEPT ![i] =
                     IF cache[k] # Null
                     THEN Respond(r1, 200, [cached |-> TRUE, data |-> ParseSimpleResult(cache[k]),
                                            message |-> "Retrieved from cache"])
                     ELSE [r1 EXCEPT !.pc = "fetch"]]
       /\ UNCHANGED <<cache, analyses, nextId, sessions, capacity, expiries, puts, lastWrite>>
       /\ UNCHANGED scoreVars

\* worker-simple.ts 42-70: the index answers and the prompt is built
SimpleQuery(i, rankings) ==
    LET r == reqs[i]
    IN /\ r.kind = "analyze" /\ r.pc = "vectorize.query"
       /\ \E ans \in rankings :
            LET ms == Truncate(ans, TopKAnalyze)
            IN reqs' = [reqs EXCEPT ![i] =
                          [Called(r, "vectorize.query") EXCEPT
                             !.matches = ms,
                             !.prompt = SimplePromptOf(r.url, r.pageData, RagContextOf(ms)),
                             !.pc = "ai.generate"]]
       /\ UNCHANGED <<cache, analyses, nextId, sessions, capacity, expiries, puts, lastWrite>>
       /\ UNCHANGED scoreVars

\* worker-simple.ts 72-90: the model answers and its text becomes the analysis
SimpleGenerate(i) ==
    LET r == reqs[i]
    IN /\ r.kind = "analyze" /\ r.pc = "ai.generate"
       /\ \E reply \in GeneratedReplies :
            reqs' = [reqs EXCEPT ![i] =
                       [Called(r, "ai.generate") EXCEPT
                          !.analysis = ParseReply(reply),
                          !.pc = "db.insert"]]
       /\ UNCHANGED <<cache, analyses, nextId, sessions, capacity, expiries, puts, lastWrite>>
       /\ UNCHANGED scoreVars

\* worker-simple.ts 93-101
SimpleInsert(i) ==
    LET r == reqs[i]
    IN /\ r.kind = "analyze" /\ r.pc = "db.insert"
       /\ analyses' = Append(analyses,
                        [id |-> nextId, url |-> r.url, analysis_data |-> JPageData(r.pageData),
                         score |-> r.analysis.score,
                         recommendations |-> JStrings(r.analysis.recommendations)])
       /\ nextId' = nextId + 1
       /\ reqs' = [reqs EXCEPT ![i] = [Called(r, "db.insert") EXCEPT !.pc = "cache.put"]]
       /\ UNCHANGED <<cache, sessions, capacity, expiries, puts, lastWrite>>
       /\ UNCHANGED scoreVars

\* worker-simple.ts 104-110 and 136-140
SimplePut(i) ==
    LET r == reqs[i]
        k == CacheKey(r.url)
        result == [pageData |-> r.pageData, analysis |-> r.analysis]
    IN /\ r.kind = "analyze" /\ r.pc = "cache.put"
       /\ cache' = [cache EXCEPT ![k] = StringifySimpleResult(result)]
       /\ puts' = [puts EXCEPT ![k] = @ + 1]
       /\ reqs' = [reqs EXCEPT ![i] =
                     Respond([Called(r, "cache.put") EXCEPT
                                !.epoch = expiries[k], !.putsSeen = puts[k] + 1],
                             200,
                             [cached |-> FALSE, data |-> result,
                              message |-> "Analysis complete"])]
       /\ UNCHANGED <<analyses, nextId, sessions, capacity, expiries, lastWrite>>
       /\ UNCHANGED scoreVars

InitSimple == InitIdle /\ capacity = MaxAnalyze

NextSimple ==
    \/ \E u \in SameUrlInputs : ArriveAnalyze(u)
    \/ \E k \in CacheKeys : CacheExpire(k)
    \/ \E i \in 1..Len(reqs) : SimpleCacheGet(i)
    \/ \E i \in 1..Len(reqs) : AnalyzeFetch(i, OkOutcomes)
    \/ \E i \in 1..Len(reqs) : AnalyzeEmbed(i)
    \/ \E i \in 1..Len(reqs) : SimpleQuery(i, {TwiceRanked})
    \/ \E i \in 1..Len(reqs) : SimpleGenerate(i)
    \/ \E i \in 1..Len(reqs) : SimpleInsert(i)
    \/ \E i \in 1..Len(reqs) : SimplePut(i)
    \/ \E i \in 1..Len(reqs) : Throw(i)

SimpleSpec == InitSimple /\ [][NextSimple]_vars

-----------------------------------------------------------------------------
(* Properties of the scoring engine, checked under ScoreSpec *)

Scored == stage = "scored"

Range(seq) == {seq[i] : i \in 1..Len(seq)}

\* a title and a description that draw no penalty, issue or recommendation
FineTitle == Rep(55)
FineDesc == Rep(150)

\* points the score loses to one field: the score of the same features with
\* that field made faultless, minus the score obtained
TitleLoss == calculateSeoScore([pageData EXCEPT !.title = FineTitle]) - analysis.score
DescLoss == calculateSeoScore([pageData EXCEPT !.metaDescription = FineDesc]) - analysis.score
HeadingsLoss ==
    calculateSeoScore([pageData EXCEPT !.headings = <<"a", "b", "c">>]) - analysis.score

\* C3: the score of every extracted PageFeatures value is an integer in [0,100]
C3_ScoreInRange == Scored => analysis.score \in 0..100

C3_Witness == Scored /\ analysis.score = 25

\* The penalty table of the specification, each row applied on its own.
\* "missing" is the sentinel value of the field.
SpecTableSum(pd, titleMissing, descMissing) ==
    (IF titleMissing THEN 20 ELSE 0)
    + (IF ~titleMissing /\ Len(pd.title) < 30 THEN 10 ELSE 0)
    + (IF Len(pd.title) > 60 THEN 10 ELSE 0)
    + (IF descMissing THEN 20 ELSE 0)
    + (IF ~descMissing /\ Len(pd.metaDescription) < 120 THEN 10 ELSE 0)
    + (IF Len(pd.metaDescription) > 160 THEN 10 ELSE 0)
    + (IF Len(pd.headings) = 0 THEN 15 ELSE 0)
    + (IF Len(pd.headings) \in {1, 2} THEN 5 ELSE 0)
    + (IF Len(pd.images) > 20 THEN 10 ELSE 0)
    + (IF Len(pd.links) < 3 THEN 10 ELSE 0)

Clamp(n) == Max(0, Min(100, n))

\* C4 as stated: the score is 100 minus the table rows that apply, a field
\* being missing when it holds its sentinel and present otherwise
C4_ScoreIsSpecTable ==
    Scored =>
        analysis.score =
            Clamp(100 - SpecTableSum(pageData, pageData.title = TitleSentinel,
                                     pageData.metaDescription = DescSentinel))

\* C4 amended: the score is 100 minus the table rows that apply, where an
\* empty title or description counts as missing (20) and not as too short (10)
C4_ScoreIsTableEmptyIsMissing ==
    Scored =>
        analysis.score =
            Clamp(100 - SpecTableSum(pageData,
                        pageData.title \in {TitleSentinel, ""},
                        pageData.metaDescription \in {DescSentinel, ""}))

C4_Witness ==
    /\ Scored
    /\ pageData.title = ""
    /\ Len(pageData.metaDescription) = 161
    /\ Len(pageData.headings) = 2
    /\ analysis.score = 55

HasTitleElement == \E i \in 1..Len(html) : html[i].tag = "title"

\* C5: markup without a title element extracts to the title sentinel and
\* loses exactly 20 points to the title; for every input the title and the
\* description lose 0, 10 or 20 points and the headings 0, 5 or 15, one
\* penalty per field at most
C5_OnePenaltyPerField ==
    Scored =>
        /\ ~HasTitleElement => pageData.title = TitleSentinel /\ TitleLoss = 20
        /\ TitleLoss \in {0, 10, 20}
        /\ DescLoss \in {0, 10, 20}
        /\ HeadingsLoss \in {0, 5, 15}
        /\ Len(TitleIssues(pageData)) <= 1

C5_Witness == Scored /\ ~HasTitleElement /\ pageData.title = TitleSentinel /\ TitleLoss = 20

\* C6: a 60 character title and a 160 character description lose nothing and
\* raise no issue; 61 and 161 characters lose exactly 10 and raise the
\* "too long" issue
C6_UpperLimitsInclusive ==
    Scored =>
        /\ Len(pageData.title) = 60 =>
              TitleLoss = 0 /\ IssueTitleLong(60) \notin Range(analysis.issues)
        /\ Len(pageData.title) = 61 =>
              TitleLoss = 10 /\ IssueTitleLong(61) \in Range(analysis.issues)
        /\ Len(pageData.metaDescription) = 160 =>
              DescLoss = 0 /\ IssueDescLong(160) \notin Range(analysis.issues)
        /\ Len(pageData.metaDescription) = 161 =>
              DescLoss = 10 /\ IssueDescLong(161) \in Range(analysis.issues)

C6_Witness ==
    /\ Scored
    /\ Len(pageData.title) = 61
    /\ Len(pageData.metaDescription) = 160
    /\ TitleLoss = 10

LastN(seq, n) == SubSeq(seq, Len(seq) - n + 1, Len(seq))
Priorities(seq) == [i \in 1..Len(seq) |-> seq[i].priority]

\* C7 as stated: the list ends with seven universal entries (none of them a
\* conditional High entry)
C7_SevenUniversalLast ==
    Scored =>
        /\ Len(analysis.recommendations) >= 7
        /\ "High" \notin Range(Priorities(LastN(analysis.recommendations, 7)))

\* C7 amended: the list ends with exactly the six universal entries, the
\* same texts in the same order with priorities Medium, Medium, Medium,
\* Medium, Low, Low, and everything before them is a conditional High entry
C7_SixUniversalLast ==
    Scored =>
        LET recs == analysis.recommendations
            n == Len(recs)
        IN /\ n >= 6
           /\ LastN(recs, 6) = UniversalRecs
           /\ Priorities(LastN(recs, 6)) = <<"Medium", "Medium", "Medium", "Medium", "Low", "Low">>
           /\ \A i \in 1..(n - 6) :
                 recs[i] \in {RecTitle, RecDesc, RecHeadings} /\ recs[i].priority = "High"

C7_Witness ==
    /\ Scored
    /\ Len(analysis.recommendations) = 9
    /\ analysis.recommendations[3] = RecHeadings

\* C8: a conditional recommendation for a field appears only when the score
\* lost points to that field and an issue was reported for it
C8_RecommendationOnlyWhenPenalised ==
    Scored =>
        /\ RecTitle \in Range(analysis.recommendations) =>
              TitleLoss > 0 /\ TitleIssues(pageData) # <<>>
        /\ RecDesc \in Range(analysis.recommendations) =>
              DescLoss > 0 /\ DescIssues(pageData) # <<>>
        /\ RecHeadings \in Range(analysis.recommendations) =>
              HeadingsLoss > 0 /\ HeadingsIssues(pageData) # <<>>

\* the scenario of C9: a 5 character title and nothing else
IsScenarioPage ==
    /\ Len(pageData.title) = 5
    /\ pageData.metaDescription = DescSentinel
    /\ pageData.headings = <<>>
    /\ pageData.images = <<>>
    /\ pageData.links = <<>>

\* C9 as stated: score 45, the three issues, and the recommendations are the
\* title entry, the description entry, then seven universal entries
C9_ScenarioAsStated ==
    Scored /\ IsScenarioPage =>
        /\ analysis.score = 45
        /\ {IssueTitleShort(5), IssueDescMissing, IssueNoHeadings, IssueNoImages}
              \subseteq Range(analysis.issues)
        /\ Len(analysis.recommendations) = 9
        /\ SubSeq(analysis.recommendations, 1, 2) = <<RecTitle, RecDesc>>
        /\ "High" \notin Range(Priorities(LastN(analysis.recommendations, 7)))

\* C9 amended: score 45, the issues title-too-short, description-missing,
\* headings-missing, no-images and few-links in that order, and the
\* recommendations are the title, description and headings High entries
\* followed directly by the six universal entries
C9_Scenario ==
    Scored /\ IsScenarioPage =>
        /\ analysis.score = 45
        /\ analysis.issues =
              <<IssueTitleShort(5), IssueDescMissing, IssueNoHeadings, IssueNoImages,
                IssueFewLinks>>
        /\ analysis.recommendations = <<RecTitle, RecDesc, RecHeadings>> \o UniversalRecs
        /\ Len(analysis.recommendations) = 9

C9_Witness == Scored /\ IsScenarioPage /\ html = <<TitleEl(Rep(5))>>

-----------------------------------------------------------------------------
(* Properties of the analyze handler, checked under AnalyzeSpec *)

ReqIds == 1..Len(reqs)

\* request i is an analyze request that was answered with a result
Analyzed(i) == reqs[i].kind = "analyze" /\ reqs[i].pc = "done" /\ reqs[i].status = 200

\* b arrived after a had been answered, both were answered with a result for
\* the same URL, and the cache entry did not expire and was not evicted
\* between a's use of the cache and b's read
LaterSameUrl(a, b) ==
    /\ Analyzed(a) /\ Analyzed(b)
    /\ a \in reqs[b].doneAtStart
    /\ reqs[a].url = reqs[b].url
    /\ reqs[a].epoch = reqs[b].epoch

\* C1 as stated: a later call for the same URL, before the entry expires or
\* is evicted, returns cached=true and the data of the first call
C1_LaterCallReturnsFirstData ==
    \A a, b \in ReqIds :
        LaterSameUrl(a, b) =>
            /\ reqs[b].body.cached = TRUE
            /\ reqs[b].body.data = reqs[a].body.data

\* C1 amended: the later call returns cached=true, and its data is the data
\* of the first call provided no other request wrote the cache entry of the
\* URL between the first call's use of the cache and the later call's read
C1_LaterCallReturnsCachedData ==
    \A a, b \in ReqIds :
        LaterSameUrl(a, b) =>
            /\ reqs[b].body.cached = TRUE
            /\ reqs[a].putsSeen = reqs[b].putsSeen =>
                  reqs[b].body.data = reqs[a].body.data

C1_Witness ==
    \E a, b \in ReqIds :
        /\ LaterSameUrl(a, b)
        /\ reqs[a].body.cached = FALSE
        /\ reqs[b].body.cached = TRUE
        /\ reqs[a].putsSeen = reqs[b].putsSeen
        /\ reqs[b].body.data = reqs[a].body.data
        /\ reqs[b].body.data.analysis.score = 45

FreshCalls == <<"cache.get", "fetch", "ai.embed", "vectorize.query", "db.insert", "cache.put">>

\* what a request that found a cache entry has done, and what a fresh one has
C2_HitState ==
    \A i \in ReqIds :
        reqs[i].kind = "analyze" =>
            /\ reqs[i].pc \notin {"done", "cache.get"} => reqs[i].cached = Null
            /\ Analyzed(i) /\ reqs[i].body.cached = TRUE => reqs[i].calls = <<"cache.get">>
            /\ Analyzed(i) /\ reqs[i].calls = FreshCalls => reqs[i].body.cached = FALSE
            /\ Analyzed(i) => reqs[i].calls \in {<<"cache.get">>, FreshCalls}

\* the step in which the cache read of request i returns an entry
C2_HitStep(i) ==
    /\ i \in ReqIds
    /\ reqs[i].pc = "cache.get"
    /\ cache[CacheKey(reqs[i].url)] # Null
    /\ reqs'[i] # reqs[i]
    /\ reqs'[i].status # 500

\* C2: a request that finds a cache entry issues no call but the cache read,
\* leaves the analyses table and the cache as they were and answers
\* cached=true; a request that ran the pipeline answers cached=false
C2_HitSkipsPipeline ==
    /\ []C2_HitState
    /\ [][\A i \in ReqIds :
            C2_HitStep(i) =>
                /\ UNCHANGED <<cache, analyses, nextId>>
                /\ reqs'[i].pc = "done"
                /\ reqs'[i].body.cached = TRUE]_vars

C2_Witness ==
    \E i \in ReqIds :
        /\ Analyzed(i)
        /\ reqs[i].body.cached = TRUE
        /\ reqs[i].calls = <<"cache.get">>
        /\ Len(analyses) = 1

-----------------------------------------------------------------------------
(* Properties of the chat handler, checked under ChatSpec *)

RowsFor(sid) == {j \in 1..Len(sessions) : sessions[j].session_id = sid}

\* the session write of chat request i has landed
Wrote(i) == reqs[i].kind = "chat" /\ reqs[i].pc = "done" /\ reqs[i].status = 200

SummaryText(m) == IF m = NoValue THEN "{}" ELSE "{\"lastMessage\":\"" \o m \o "\"}"

C10_OneRecord ==
    \A sid \in SessionIds :
        /\ Cardinality(RowsFor(sid)) <= 1
        /\ RowsFor(sid) # {} <=> \E i \in ReqIds : Wrote(i) /\ reqs[i].sessionId = sid
        /\ \A j \in RowsFor(sid) :
              /\ lastWrite[sid] \in ReqIds
              /\ Wrote(lastWrite[sid])
              /\ reqs[lastWrite[sid]].sessionId = sid
              /\ sessions[j].context = SummaryText(reqs[lastWrite[sid]].message)

\* C10: at most one record per session id; the record exists exactly when a
\* chat for that id has completed its write, is never deleted, and holds the
\* summary of the chat whose write landed last
C10_SessionLastWriteWins ==
    /\ []C10_OneRecord
    /\ [][\A sid \in SessionIds : RowsFor(sid) # {} => RowsFor(sid)' # {}]_vars

C10_Witness ==
    \E i, j \in ReqIds :
        /\ i < j
        /\ Wrote(i) /\ Wrote(j)
        /\ reqs[i].sessionId = "s1" /\ reqs[j].sessionId = "s1"
        /\ reqs[i].message # reqs[j].message
        /\ lastWrite["s1"] = i
        /\ Cardinality(RowsFor("s1")) = 1
        /\ \A k \in RowsFor("s1") : sessions[k].context = SummaryText(reqs[i].message)

\* the step in which the session read of chat request i returns
C11_ReadStep(i) ==
    /\ i \in ReqIds
    /\ reqs[i].kind = "chat"
    /\ reqs[i].pc = "db.sessionRead"
    /\ reqs'[i].pc = "ai.generate"

\* chats for session id sid whose write had landed when request i arrived
PriorChats(i, sid) ==
    {a \in reqs[i].doneAtStart : Wrote(a) /\ reqs[a].sessionId = sid}

EndsWith(s, t) == Len(s) >= Len(t) /\ SubSeq(s, Len(s) - Len(t) + 1, Len(s)) = t

\* the system instruction handed to the model carries the context that was
\* read, or the marker None when no record was read
C11_PromptState ==
    \A i \in ReqIds :
        reqs[i].kind = "chat" /\ reqs[i].pc = "db.sessionWrite" =>
            EndsWith(reqs[i].prompt.system,
                     "Previous context: "
                     \o (IF reqs[i].history = NoValue THEN "None" ELSE reqs[i].history))

\* C11: the session read of a chat that runs after a chat with the same
\* session id has completed returns a record, namely the one written last for
\* that id (the first chat's when no other chat for the id wrote since), and
\* the system instruction contains it; with no record the context is None
C11_SecondChatSeesFirst ==
    /\ []C11_PromptState
    /\ [][\A i \in ReqIds : \A sid \in SessionIds :
            C11_ReadStep(i) /\ reqs[i].sessionId = sid =>
                /\ RowsFor(sid) = {} => reqs'[i].history = NoValue
                /\ PriorChats(i, sid) # {} =>
                      /\ reqs'[i].history # NoValue
                      /\ reqs'[i].history = SummaryText(reqs[lastWrite[sid]].message)
                      /\ \A a \in PriorChats(i, sid) :
                            lastWrite[sid] = a =>
                                reqs'[i].history = SummaryText(reqs[a].message)]_vars

C11_Witness ==
    \E a, b \in ReqIds :
        /\ a \in reqs[b].doneAtStart
        /\ Wrote(a)
        /\ reqs[a].sessionId = "s1" /\ reqs[b].sessionId = "s1"
        /\ reqs[a].message = "What is SEO?" /\ reqs[b].message = "And titles?"
        /\ reqs[b].pc = "db.sessionWrite"
        /\ reqs[b].history = "{\"lastMessage\":\"What is SEO?\"}"
        /\ EndsWith(reqs[b].prompt.system, "Previous context: {\"lastMessage\":\"What is SEO?\"}")

\* request i is an analyze request whose body had no url
NoUrl(i) == reqs[i].kind = "analyze" /\ reqs[i].url = NoValue

C12_RejectedState ==
    \A i \in ReqIds :
        NoUrl(i) =>
            /\ reqs[i].pc = "done"
            /\ reqs[i].status = 400
            /\ reqs[i].body = [error |-> "URL is required"]
            /\ reqs[i].calls = <<>>

\* C12: an analyze request without url is answered 400 (not 500) on arrival,
\* has issued no collaborator call, and its arrival leaves the cache and the
\* analyses table as they were
C12_MissingUrlRejected ==
    /\ []C12_RejectedState
    /\ [][Len(reqs') > Len(reqs)
            /\ reqs'[Len(reqs')].kind = "analyze" /\ reqs'[Len(reqs')].url = NoValue =>
                UNCHANGED <<cache, analyses, nextId>>]_vars

C12_Witness ==
    \E i, j \in ReqIds :
        /\ NoUrl(i) /\ reqs[i].status = 400 /\ reqs[i].calls = <<>>
        /\ Analyzed(j) /\ j < i
        /\ Len(analyses) = 1
        /\ cache[CacheKey(reqs[j].url)] # Null

-----------------------------------------------------------------------------
(* Input checks and outputs of the chat handler, checked under ChatSpec *)

\* request i is a chat request whose body lacked the message or the session id
MissingChatField(i) ==
    reqs[i].kind = "chat" /\ (reqs[i].message = NoValue \/ reqs[i].sessionId = NoValue)

\* C13 as stated: a chat request without message or without sessionId is
\* answered with a client-input error and issues no collaborator call
C13_MissingFieldRejected ==
    \A i \in ReqIds :
        MissingChatField(i) =>
            /\ reqs[i].pc = "done"
            /\ reqs[i].status = 400
            /\ reqs[i].calls = <<>>

NoDuplicates(seq) == \A j, k \in 1..Len(seq) : j # k => seq[j] # seq[k]

\* C17 as stated: the sources list of a chat answer names no source label twice
C17_SourcesDeduplicated ==
    \A i \in ReqIds : Wrote(i) => NoDuplicates(reqs[i].body.sources)

-----------------------------------------------------------------------------
(* Failures of the analyze pipeline, checked under AnalyzeSpec *)

Last(seq) == seq[Len(seq)]

BeforeScoring == {"fetch", "ai.embed", "vectorize.query"}

\* request i takes a step while it waits for the call named by its pc
StepsAt(i, calls) ==
    /\ i \in ReqIds
    /\ reqs[i].kind = "analyze"
    /\ reqs[i].pc \in calls
    /\ reqs'[i] # reqs[i]

\* analyze request i was answered 500 because the call named last in its
\* calls was rejected
FailedAt(i, calls) ==
    /\ reqs[i].kind = "analyze" /\ reqs[i].pc = "done" /\ reqs[i].status = 500
    /\ Last(reqs[i].calls) \in calls

C15_FailedEarlyState ==
    \A i \in ReqIds :
        FailedAt(i, BeforeScoring) =>
            /\ "db.insert" \notin Range(reqs[i].calls)
            /\ "cache.put" \notin Range(reqs[i].calls)

\* C15: a request waiting for the fetch, the embedding or the vector query
\* changes neither the analyses table nor the cache, whether the call returns
\* or fails; a row is only inserted, and a cache entry only written, by a
\* request that holds the complete result
C15_NoWriteBeforeScoring ==
    /\ []C15_FailedEarlyState
    /\ [][\A i \in ReqIds :
            StepsAt(i, BeforeScoring) => UNCHANGED <<cache, analyses, nextId>>]_vars
    /\ [][analyses' # analyses =>
            \E i \in ReqIds :
                /\ reqs[i].pc = "db.insert"
                /\ reqs[i].pageData # Null /\ reqs[i].analysis # Null
                /\ reqs[i].analysis.score \in 0..100
                /\ Len(analyses') = Len(analyses) + 1
                /\ Last(analyses').score = reqs[i].analysis.score]_vars
    /\ [][\A k \in CacheKeys :
            cache'[k] # cache[k] /\ cache'[k] # Null =>
                \E i \in ReqIds :
                    /\ reqs[i].pc = "cache.put"
                    /\ reqs[i].analysis # Null
                    /\ cache'[k] = StringifyResult([pageData |-> reqs[i].pageData,
                                                    analysis |-> reqs[i].analysis])]_vars

C15_Witness ==
    \E i, j \in ReqIds :
        /\ FailedAt(i, {"vectorize.query"})
        /\ Analyzed(j) /\ reqs[j].body.cached = FALSE
        /\ i < j
        /\ Len(analyses) = 1

\* rows of the analyses table that belong to a request that completed, or
\* that is about to write the cache
AccountedRows ==
    Cardinality({i \in ReqIds : Analyzed(i) /\ reqs[i].body.cached = FALSE})
    + Cardinality({i \in ReqIds : reqs[i].kind = "analyze" /\ reqs[i].pc = "cache.put"})

\* C16 as stated: a failed analyze invocation leaves no row behind - every
\* row of the analyses table was inserted by an invocation that completed or
\* is still running
C16_AllOrNothing == Len(analyses) = AccountedRows

-----------------------------------------------------------------------------
(* The description extractor, checked under ScoreSpec *)

Extracted == stage \in {"extracted", "scored"}

\* a meta element that carries name="description", in any letter case and at
\* any place among its attributes
IsDescriptionMeta(e) ==
    /\ Lower(e.tag) = "meta"
    /\ \E j \in 1..Len(e.attrs) :
          Lower(e.attrs[j].k) = "name" /\ Lower(e.attrs[j].v) = "description"

\* value of the content attribute of an element
ContentOf(e) ==
    e.attrs[CHOOSE j \in 1..Len(e.attrs) : Lower(e.attrs[j].k) = "content"].v

DescriptionMetas == {i \in 1..Len(html) : IsDescriptionMeta(html[i])}

\* C20 as stated: the description is the content of the first meta element
\* named description, however its attributes are ordered and whatever other
\* attributes it has; the sentinel is returned only when there is none
C20_FirstDescriptionMeta ==
    Extracted =>
        pageData.metaDescription =
            IF DescriptionMetas = {} THEN DescSentinel
            ELSE ContentOf(html[CHOOSE i \in DescriptionMetas :
                                    \A j \in DescriptionMetas : i <= j])

-----------------------------------------------------------------------------
(* Properties checked under Spec: both handlers, any fetch outcome, long rankings *)

\* the features of the body served with the non-2xx status
ErrorFeatures == PageDataOf(ErrorPage)

\* C14 as stated: when the fetch ends in a non-2xx response nothing is
\* extracted from its body, no row is inserted, no cache entry is written
\* and no result is returned for it
C14_NonSuccessFetchFails ==
    /\ \A i \in ReqIds :
          reqs[i].kind = "analyze" /\ reqs[i].fetchStatus \notin {0} \cup 200..299 =>
              reqs[i].analysis = Null
    /\ \A n \in 1..Len(analyses) : analyses[n].analysis_data # JPageData(ErrorFeatures)
    /\ \A k \in CacheKeys :
          cache[k] # Null => ParseResult(cache[k]).pageData # ErrorFeatures
    /\ \A i \in ReqIds :
          Analyzed(i) => reqs[i].body.data.pageData # ErrorFeatures

NonIncreasing(ms) == \A j \in 1..(Len(ms) - 1) : ms[j].score >= ms[j + 1].score

\* the non-empty texts of the first n passages, in their order, separated by
\* a blank line
RECURSIVE TextsInOrder(_, _)
TextsInOrder(ms, n) ==
    IF n = 0 THEN ""
    ELSE LET before == TextsInOrder(ms, n - 1)
             t == ms[n].metadata.text
         IN IF t = "" THEN before
            ELSE IF before = "" THEN t
            ELSE before \o "\n\n" \o t

StartsWith(s, t) == Len(s) >= Len(t) /\ SubSeq(s, 1, Len(t)) = t

LabelOf(m) == IF m.metadata.source = "" THEN "Unknown" ELSE m.metadata.source

C19_PassagesState ==
    \A i \in ReqIds :
        LET r == reqs[i]
            ctx == TextsInOrder(r.matches, Len(r.matches))
        IN /\ r.kind = "analyze" => Len(r.matches) <= 10
           /\ r.kind = "chat" => Len(r.matches) <= 5
           /\ NonIncreasing(r.matches)
           /\ r.kind = "analyze" /\ r.pc \in {"db.insert", "cache.put"} =>
                 /\ StartsWith(ctx, r.analysis.ragContext)
                 /\ Len(r.analysis.ragContext) = Min(500, Len(ctx))
           /\ r.kind = "chat" /\ r.pc = "db.sessionWrite" =>
                 StartsWith(r.prompt.system,
                    "You are an expert SEO consultant. Use this knowledge base to provide accurate advice:\n\n"
                    \o ctx \o "\n\nPrevious context: ")

\* C19: an operation uses at most topK passages (10 for analyze, 5 for chat)
\* in non-increasing score order; the context text is their texts in that
\* order and the sources list their labels in that order
C19_TopKInRankOrder ==
    /\ []C19_PassagesState
    /\ [][\A i \in ReqIds :
            reqs[i].kind = "chat" /\ reqs[i].pc = "db.sessionWrite" /\ reqs'[i].status = 200 =>
                /\ Len(reqs'[i].body.sources) = Len(reqs[i].matches)
                /\ \A j \in 1..Len(reqs[i].matches) :
                      reqs'[i].body.sources[j] = LabelOf(reqs[i].matches[j])]_vars

C19_Witness ==
    \E i, j \in ReqIds :
        /\ reqs[i].kind = "analyze" /\ reqs[i].pc = "cache.put"
        /\ reqs[i].matches = SubSeq(TwiceRanked, 1, 10)
        /\ Len(reqs[i].analysis.ragContext) = 500
        /\ reqs[j].kind = "chat" /\ reqs[j].pc = "db.sessionWrite"
        /\ reqs[j].matches = SubSeq(TwiceRanked, 1, 5)
        /\ reqs[j].matches[2].score = reqs[j].matches[1].score
        /\ reqs[j].matches[3].score < reqs[j].matches[2].score

-----------------------------------------------------------------------------
(* The generative collaborator, checked under SimpleSpec *)

\* C18 as stated: no analyze request calls the generative-text collaborator
\* or waits for it
C18_AnalyzeNeverGenerates ==
    \A i \in ReqIds :
        reqs[i].kind = "analyze" =>
            /\ reqs[i].pc # "ai.generate"
            /\ "ai.generate" \notin Range(reqs[i].calls)

-----------------------------------------------------------------------------
(* Issues and penalties, checked under ScoreSpec *)

ImagesLoss == calculateSeoScore([pageData EXCEPT !.images = <<"i.png">>]) - analysis.score
LinksLoss ==
    calculateSeoScore([pageData EXCEPT !.links = <<"/a", "/b", "/c">>]) - analysis.score

\* place of the field an issue text speaks of: title 1, description 2,
\* headings 3, images 4, links 5 (0 for an unknown text)
FieldRank(issue) ==
    IF StartsWith(issue, "[x] Missing title tag") \/ StartsWith(issue, "[!] Title tag is too") THEN 1
    ELSE IF StartsWith(issue, "[x] Missing meta description")
            \/ StartsWith(issue, "[!] Meta description is too") THEN 2
    ELSE IF StartsWith(issue, "[x] No heading tags") \/ StartsWith(issue, "[!] Low number of headings") THEN 3
    ELSE IF StartsWith(issue, "[i] No images found") \/ StartsWith(issue, "[!] High number of images") THEN 4
    ELSE IF StartsWith(issue, "[!] Low number of internal links") THEN 5
    ELSE 0

IssueRanks == [n \in 1..Len(analysis.issues) |-> FieldRank(analysis.issues[n])]

\* C24: the issues speak of the fields in the order title, description,
\* headings, images, links, at most once each; a field has an issue exactly
\* when the score lost points to it, except that a page without images has
\* the informational issue and loses nothing
C24_IssuesMirrorPenalties ==
    Scored =>
        /\ \A n \in 1..Len(IssueRanks) : IssueRanks[n] \in 1..5
        /\ \A n \in 1..(Len(IssueRanks) - 1) : IssueRanks[n] < IssueRanks[n + 1]
        /\ 1 \in Range(IssueRanks) <=> TitleLoss > 0
        /\ 2 \in Range(IssueRanks) <=> DescLoss > 0
        /\ 3 \in Range(IssueRanks) <=> HeadingsLoss > 0
        /\ 4 \in Range(IssueRanks) <=> (ImagesLoss > 0 \/ Len(pageData.images) = 0)
        /\ 5 \in Range(IssueRanks) <=> LinksLoss > 0
        /\ Len(pageData.images) = 0 =>
              /\ ImagesLoss = 0
              /\ \E n \in 1..Len(analysis.issues) :
                    StartsWith(analysis.issues[n], "[i] No images found")

C24_Witness ==
    /\ Scored
    /\ Len(pageData.images) = 0
    /\ IssueRanks = <<1, 2, 3, 4, 5>>
    /\ ImagesLoss = 0
    /\ analysis.score = 35

\* the score before the clamp: 100 less the five penalties
RawScore(pd) ==
    100 - TitlePenalty(pd) - DescPenalty(pd) - HeadingsPenalty(pd)
        - ImagesPenalty(pd) - LinksPenalty(pd)

\* C28: the score is a multiple of 5 between 25 and 100, the clamp never
\* changes it, and the many-images penalty never meets the no-images issue
C28_ScoreGrid ==
    Scored =>
        /\ analysis.score \in 25..100
        /\ analysis.score % 5 = 0
        /\ analysis.score = RawScore(pageData)
        /\ ~(ImagesLoss > 0 /\ \E n \in 1..Len(analysis.issues) :
                                  StartsWith(analysis.issues[n], "[i] No images found"))

C28_Witness ==
    /\ Scored
    /\ analysis.score = 25
    /\ RawScore(pageData) = 25
    /\ ImagesLoss = 10
    /\ Len(pageData.images) = 21

HasMetaElement == \E i \in 1..Len(html) : html[i].tag = "meta"

HasIssue(text) == \E n \in 1..Len(analysis.issues) : analysis.issues[n] = text

\* C29: an empty title or description, or one that reads as the sentinel,
\* costs 20 and is reported missing; the too-short issue and its 10 points
\* are for texts of 1 to 29 (description: 1 to 119) characters
C29_EmptyIsMissing ==
    Scored =>
        /\ pageData.title \in {"", TitleSentinel} =>
              TitleLoss = 20 /\ HasIssue(IssueTitleMissing)
        /\ pageData.metaDescription \in {"", DescSentinel} =>
              DescLoss = 20 /\ HasIssue(IssueDescMissing)
        /\ HasIssue(IssueTitleShort(Len(pageData.title))) <=>
              (Len(pageData.title) \in 1..29 /\ pageData.title # TitleSentinel)
        /\ HasIssue(IssueTitleShort(Len(pageData.title))) => TitleLoss = 10
        /\ HasIssue(IssueDescShort(Len(pageData.metaDescription))) <=>
              (Len(pageData.metaDescription) \in 1..119 /\ pageData.metaDescription # DescSentinel)
        /\ HasIssue(IssueDescShort(Len(pageData.metaDescription))) => DescLoss = 10

C29_Witness ==
    /\ Scored
    /\ HasTitleElement /\ pageData.title = ""
    /\ HasMetaElement /\ pageData.metaDescription = DescSentinel
    /\ TitleLoss = 20 /\ DescLoss = 20
    /\ HasIssue(IssueTitleMissing) /\ HasIssue(IssueDescMissing)

-----------------------------------------------------------------------------
(* Concurrent analyses of one URL, checked under AnalyzeSpec *)

\* analyze request i missed the cache, ran the pipeline and was answered
Fresh(i) == Analyzed(i) /\ reqs[i].body.cached = FALSE

\* requests that hold a row of their own and have not been answered yet
AboutToPut == {i \in ReqIds : reqs[i].kind = "analyze" /\ reqs[i].pc = "cache.put"}

C21_RowsAndLastPut ==
    /\ FailedIds = {} =>
          Len(analyses) = Cardinality({i \in ReqIds : Fresh(i)}) + Cardinality(AboutToPut)
    /\ \A u \in URLs :
          cache[CacheKey(u)] # Null =>
              \E i \in ReqIds :
                  /\ Fresh(i) /\ reqs[i].url = u
                  /\ reqs[i].putsSeen = puts[CacheKey(u)]
                  /\ cache[CacheKey(u)] = StringifyResult(reqs[i].body.data)

-----------------------------------------------------------------------------
(* The analyses table, checked under Spec *)

\* analyze request i has had its row inserted
Inserted(i) ==
    /\ reqs[i].kind = "analyze"
    /\ reqs[i].pc = "cache.put" \/ "cache.put" \in Range(reqs[i].calls)

C26_RowsState ==
    /\ \A n \in 1..Len(analyses) : analyses[n].id = n
    /\ nextId = Len(analyses) + 1
    /\ Len(analyses) = Cardinality({i \in ReqIds : Inserted(i)})
    /\ \A i \in ReqIds : Fresh(i) => Inserted(i)

\* C26: every request that missed the cache and completed has inserted one
\* row; ids are fresh and increasing; no step of any handler changes or
\* removes a row, a step adds at most one
C26_AppendOnly ==
    /\ []C26_RowsState
    /\ [][/\ Len(analyses') \in {Len(analyses), Len(analyses) + 1}
          /\ SubSeq(analyses', 1, Len(analyses)) = analyses]_vars

\* the same URL analysed twice: two rows with ids of their own
C26_Witness ==
    /\ Len(analyses) = 2
    /\ analyses[1].url = analyses[2].url
    /\ analyses[1].id = 1 /\ analyses[2].id = 2
    /\ \E i, j \in ReqIds : i # j /\ Fresh(i) /\ Inserted(j)

-----------------------------------------------------------------------------
(* Order of the collaborator calls and failures, checked under Spec *)

IsPrefix(s, t) == Len(s) <= Len(t) /\ SubSeq(t, 1, Len(s)) = s

ChatCalls == <<"ai.embed", "vectorize.query", "db.sessionRead", "ai.generate", "db.sessionWrite">>

\* the calls of a handler in the order of its program text
CallOrder(kind) ==
    IF kind = "analyze" THEN FreshCalls
    ELSE IF kind = "chat" THEN ChatCalls
    ELSE <<"db.history">>

\* the calls that have returned are a beginning of the handler's order, and
\* the one call a running request waits for is the next of that order
C22_OrderState ==
    \A i \in ReqIds :
        /\ IsPrefix(reqs[i].calls, CallOrder(reqs[i].kind))
        /\ reqs[i].pc # "done" =>
              IsPrefix(Append(reqs[i].calls, reqs[i].pc), CallOrder(reqs[i].kind))

\* C22: within a request the collaborator calls are made in the fixed order
\* of the handler, one at a time: a step of a request ends exactly the call
\* it was waiting for, and only then is the next one awaited
C22_FixedOrder ==
    /\ []C22_OrderState
    /\ [][\A i \in ReqIds :
            reqs'[i] # reqs[i] =>
                /\ reqs[i].pc # "done"
                /\ reqs'[i].calls = Append(reqs[i].calls, reqs[i].pc)]_vars

C22_Witness ==
    \E i, j \in ReqIds :
        /\ reqs[i].kind = "analyze" /\ reqs[i].pc = "done" /\ reqs[i].calls = FreshCalls
        /\ reqs[j].kind = "chat" /\ reqs[j].pc = "ai.generate"
        /\ reqs[j].calls = <<"ai.embed", "vectorize.query", "db.sessionRead">>

\* request i was answered by the catch block of its handler
Caught(i) ==
    /\ reqs[i].kind \in {"analyze", "chat"}
    /\ reqs[i].status = 500

C23_FailedState ==
    \A i \in ReqIds :
        /\ NoDuplicates(reqs[i].calls)
        /\ Caught(i) =>
              /\ reqs[i].pc = "done"
              /\ reqs[i].calls # <<>>
              /\ reqs[i].body = [error |-> Last(reqs[i].calls) \o " failed"]

\* C23: no call is made twice within a request; a request whose call failed
\* is answered 500 with the message of that failure and makes no call after
C23_NoRetry ==
    /\ []C23_FailedState
    /\ [][\A i \in ReqIds : reqs[i].pc = "done" => reqs'[i] = reqs[i]]_vars

C23_Witness ==
    \E i, j \in ReqIds :
        /\ Caught(i) /\ reqs[i].kind = "analyze"
        /\ reqs[i].calls = <<"cache.get", "fetch", "ai.embed", "vectorize.query", "db.insert">>
        /\ reqs[i].body = [error |-> "db.insert failed"]
        /\ analyses = <<>>
        /\ j > i /\ reqs[j].kind = "chat" /\ reqs[j].pc = "done" /\ reqs[j].status = 200

-----------------------------------------------------------------------------
(* The retrieved context and the rule-based result, checked under Spec *)

\* request i holds an analysis result: computed and not yet returned, or
\* returned in its response
HasResult(i) ==
    \/ reqs[i].kind = "analyze" /\ reqs[i].pc \in {"db.insert", "cache.put"}
    \/ Fresh(i)

ResultOf(i) ==
    IF reqs[i].pc = "done" THEN reqs[i].body.data
    ELSE [pageData |-> reqs[i].pageData, analysis |-> reqs[i].analysis]

FirstChars(s, n) == IF Len(s) <= n THEN s ELSE SubSeq(s, 1, n)

\* C25: the stored context is the first 500 characters of the retrieved texts
\* joined by a blank line, and two results for the same extracted features
\* have the same score, issues and recommendations whatever was retrieved
C25_RetrievalOnlyInContext ==
    /\ \A i \in ReqIds :
          reqs[i].kind = "analyze" /\ reqs[i].pc \in {"db.insert", "cache.put"} =>
              /\ reqs[i].analysis.ragContext =
                    FirstChars(TextsInOrder(reqs[i].matches, Len(reqs[i].matches)), 500)
              /\ Len(reqs[i].analysis.ragContext) <= 500
    /\ \A i \in ReqIds : HasResult(i) => Len(ResultOf(i).analysis.ragContext) <= 500
    /\ \A i, j \in ReqIds :
          HasResult(i) /\ HasResult(j) /\ ResultOf(i).pageData = ResultOf(j).pageData =>
              /\ ResultOf(i).analysis.score = ResultOf(j).analysis.score
              /\ ResultOf(i).analysis.issues = ResultOf(j).analysis.issues
              /\ ResultOf(i).analysis.recommendations = ResultOf(j).analysis.recommendations

\* the same features analysed twice, once with ten passages whose texts
\* exceed 500 characters and once with a single short text
C25_Witness ==
    \E i, j \in ReqIds :
        /\ Fresh(i) /\ reqs[j].kind = "analyze" /\ reqs[j].pc = "cache.put"
        /\ ResultOf(i).pageData = ResultOf(j).pageData
        /\ ResultOf(i).analysis.ragContext = KbImages.text
        /\ Len(ResultOf(j).analysis.ragContext) = 500
        /\ Len(TextsInOrder(reqs[j].matches, 10)) > 500

-----------------------------------------------------------------------------
(* The cache against the analyses table, checked under Spec *)

\* the table holds a row for url u with score s
HasRow(rows, u, s) == \E n \in 1..Len(rows) : rows[n].url = u /\ rows[n].score = s

CachedScore(entry) == ParseResult(entry).analysis.score

C27_EntryHasRow ==
    \A u \in URLs :
        cache[CacheKey(u)] # Null => HasRow(analyses, u, CachedScore(cache[CacheKey(u)]))

\* C27: a cache entry for u exists only while the analyses table holds a row
\* for u with the score of that entry, and a step that writes an entry is the
\* cache write of a request whose insert has returned: the row was there
\* before the write
C27_CacheAfterInsert ==
    /\ []C27_EntryHasRow
    /\ [][\A u \in URLs :
            LET k == CacheKey(u)
            IN cache'[k] # cache[k] /\ cache'[k] # Null =>
                  /\ HasRow(analyses, u, CachedScore(cache'[k]))
                  /\ analyses' = analyses
                  /\ \E i \in ReqIds :
                        /\ StepsAt(i, {"cache.put"})
                        /\ reqs[i].url = u
                        /\ Last(reqs[i].calls) = "db.insert"]_vars

\* one request inserted its row and failed at the cache write, another one
\* scored the page differently, inserted and cached
C27_Witness ==
    \E u \in URLs :
        /\ cache[CacheKey(u)] # Null
        /\ FailedIds # {}
        /\ Len(analyses) = 2
        /\ analyses[1].url = u /\ analyses[2].url = u
        /\ analyses[1].score # analyses[2].score
        /\ CachedScore(cache[CacheKey(u)]) = analyses[2].score

====
